---- MODULE Spec2Model ----
(***************************************************************************)
(* The automotive dashboard of src/app.py as a state machine.              *)
(*                                                                         *)
(* One script run of main() is one action.  The state that survives a run  *)
(* is the data file on disk, st.session_state.filters, and the values the  *)
(* sidebar widgets hold in the session (a widget keeps its value from run  *)
(* to run while it is rendered with the same label, options and default).  *)
(* `view` records what the last run did and showed.                        *)
(*                                                                         *)
(* utils/data_processor.py is not part of the sources at hand: load_data,  *)
(* get_unique_values, filter_data and calculate_market_indicators follow   *)
(* sections 3, 4 and 7 of the specification.                               *)
(***************************************************************************)
EXTENDS Integers, Sequences, FiniteSets, TLC

VARIABLES
    disk,      \* the file data/automotive_sales.csv: [exists, cols, rows]
    filters,   \* st.session_state.filters: column name -> allowed values
    wOpts,     \* per multiselect: the options it was last rendered with ({}: not rendered)
    wSel,      \* per multiselect: the selection it holds
    wDate,     \* the date_input: [id |-> <<min, max>>, val |-> its value] (id <<>>: not rendered)
    pc,        \* "pending": a script run is queued (session start, st.rerun()); "idle"
    view,      \* what the last script run did
    pure       \* the inputs and results of the pipeline applied as a function

vars == <<disk, filters, wOpts, wSel, wDate, pc, view, pure>>

\* ------------------------------------------------------------------ bounds

\* A timestamp is day * TicksPerDay + tick: the time of day a datetime carries.
TicksPerDay == 2
\* The longest table drawn as an input of the filter pipeline.
MaxRows == 3

\* ------------------------------------------------------------ values, maps

Ts(day, tick) == day * TicksPerDay + tick

\* Timestamp.date(), Series.dt.date: the calendar day of a datetime.
DateOf(ts) == ts \div TicksPerDay

EmptyMap == [c \in {} |-> {}]

MapSet(f, k, v) == [c \in DOMAIN f \cup {k} |-> IF c = k THEN v ELSE f[c]]

MapDel(f, k) == [c \in DOMAIN f \ {k} |-> f[c]]

FilterCols == <<"brand", "year", "region", "vehicle_type">>

FilterColSet == {FilterCols[i] : i \in DOMAIN FilterCols}

SetMin(S) == CHOOSE x \in S : \A y \in S : x <= y

SetMax(S) == CHOOSE x \in S : \A y \in S : y <= x

ColumnValues(data, c) == {data.rows[i][c] : i \in DOMAIN data.rows}

\* str(year) and int(year): a decimal numeral is a sequence of characters.
DigitChar == <<"0", "1", "2", "3", "4", "5", "6", "7", "8", "9">>

RECURSIVE str(_)
str(n) ==
    IF n < 10 THEN <<DigitChar[n + 1]>>
    ELSE Append(str(n \div 10), DigitChar[(n % 10) + 1])

DigitVal(ch) == CHOOSE d \in 0..9 : DigitChar[d + 1] = ch

RECURSIVE int(_)
int(s) ==
    IF Len(s) = 1 THEN DigitVal(s[1])
    ELSE int(SubSeq(s, 1, Len(s) - 1)) * 10 + DigitVal(s[Len(s)])

\* The 'All' entry of a multiselect; the year widget's entries are numerals.
AllOf(c) == IF c = "year" THEN <<"A", "l", "l">> ELSE "All"

\* ------------------------------------------- utils.data_processor (spec)

None == [cols |-> {}, rows |-> <<>>, absent |-> TRUE]

\* DatasetLoader: the table, or the absence signal when the file is missing.
load_data(file) ==
    IF file.exists THEN [cols |-> file.cols, rows |-> file.rows, absent |-> FALSE]
    ELSE None

\* ValueCatalog: the distinct values of a column (empty when it is absent).
get_unique_values(data, c) ==
    IF c \in data.cols THEN ColumnValues(data, c) ELSE {}

\* FilterEngine: one key's predicate on one row.
KeyKeeps(cols, F, c, row) ==
    IF c \notin cols THEN TRUE
    ELSE IF c = "date"
         THEN F[c][1] <= DateOf(row[c]) /\ DateOf(row[c]) <= F[c][2]
         ELSE row[c] \in F[c]

\* FilterEngine: the rows satisfying every key's predicate, in their order.
filter_data(data, F) ==
    [data EXCEPT !.rows =
        SelectSeq(data.rows, LAMBDA r : \A c \in DOMAIN F : KeyKeeps(data.cols, F, c, r))]

RECURSIVE SumCol(_, _)
SumCol(rows, c) ==
    IF rows = <<>> THEN 0 ELSE rows[1][c] + SumCol(Tail(rows), c)

RECURSIVE InsertByDate(_, _)
InsertByDate(sorted, r) ==
    IF sorted = <<>> THEN <<r>>
    ELSE IF sorted[Len(sorted)]["date"] <= r["date"] THEN Append(sorted, r)
    ELSE Append(InsertByDate(SubSeq(sorted, 1, Len(sorted) - 1), r), sorted[Len(sorted)])

RECURSIVE SortByDate(_)
SortByDate(rows) ==
    IF rows = <<>> THEN <<>>
    ELSE InsertByDate(SortByDate(SubSeq(rows, 1, Len(rows) - 1)), rows[Len(rows)])

\* The earlier and the later half of the date-ordered rows.
EarlierHalf(rows) == SubSeq(SortByDate(rows), 1, Len(rows) \div 2)

LaterHalf(rows) == SubSeq(SortByDate(rows), (Len(rows) \div 2) + 1, Len(rows))

DistinctDates(data) ==
    IF "date" \in data.cols THEN {DateOf(d) : d \in ColumnValues(data, "date")} ELSE {}

\* A percentage as the fraction num / den; Zero is the number 0.
Zero == [num |-> 0, den |-> 1, raised |-> FALSE]

\* (later - earlier) / earlier * 100: the division raises on a zero divisor.
PctChange(later, earlier) ==
    IF earlier = 0 THEN [num |-> 0, den |-> 0, raised |-> TRUE]
    ELSE IF later = earlier THEN Zero
    ELSE [num |-> (later - earlier) * 100, den |-> earlier, raised |-> FALSE]

\* IndicatorCalculator: price_trend and sales_growth, with the guarded cases.
Trend(data, c) ==
    IF c \notin data.cols \/ Cardinality(DistinctDates(data)) < 2 THEN Zero
    ELSE IF SumCol(EarlierHalf(data.rows), c) = 0 THEN Zero
    ELSE PctChange(SumCol(LaterHalf(data.rows), c), SumCol(EarlierHalf(data.rows), c))

\* IndicatorCalculator: the fields of the IndicatorSet the dashboard's numbers rest on.
calculate_market_indicators(data) ==
    [total_sales  |-> IF "sales_count" \in data.cols
                      THEN SumCol(data.rows, "sales_count") ELSE Len(data.rows),
     price_trend  |-> Trend(data, "price"),
     sales_growth |-> Trend(data, "sales_count")]

\* ------------------------------------------------------------- app.py

\* The session's first script run finds no 'filters' key and creates the mapping.
SessionInit == EmptyMap

\* Mutant: the absence check never fires.
DataMissingNever(data) == FALSE

\* `if data is None`
DataMissing(data) == data.absent

min_date(data) == DateOf(SetMin(ColumnValues(data, "date")))

max_date(data) == DateOf(SetMax(ColumnValues(data, "date")))

\* The date_input's default value, which with its bounds identifies the widget.
DateDefault(data) ==
    IF "date" \in data.cols THEN <<min_date(data), max_date(data)>> ELSE <<>>

NoDateWidget == [id |-> <<>>, val |-> <<>>]

\* st.date_input: the value the session holds for this widget, else its default.
date_input(w, id) == IF w.id = id THEN w.val ELSE id

\* What a user can set a rendered date_input to: a start alone, or a range.
DateValues(id) ==
    {<<s>> : s \in id[1]..id[2]}
        \cup {p \in (id[1]..id[2]) \X (id[1]..id[2]) : p[1] <= p[2]}

\* Mutant: the datetimes are compared with the dates, without .dt.date.
DateRangeFilterRaw(data, dr) ==
    [data EXCEPT !.rows =
        SelectSeq(data.rows, LAMBDA r : r["date"] >= Ts(dr[1], 0) /\ r["date"] <= Ts(dr[2], 0))]

\* Mutant: the end of the range is exclusive.
DateRangeFilterHalfOpen(data, dr) ==
    [data EXCEPT !.rows =
        SelectSeq(data.rows, LAMBDA r : DateOf(r["date"]) >= dr[1] /\ DateOf(r["date"]) < dr[2])]

\* data[(data['date'].dt.date >= start_date) & (data['date'].dt.date <= end_date)]
DateRangeFilter(data, dr) ==
    [data EXCEPT !.rows =
        SelectSeq(data.rows, LAMBDA r : DateOf(r["date"]) >= dr[1] /\ DateOf(r["date"]) <= dr[2])]

\* Mutant: the selected range is never applied.
DateFilteredSkipped(data, dr) == data

\* The table the sidebar hands on: narrowed only when two dates are selected.
DateFiltered(data, dr) ==
    IF "date" \in data.cols /\ Len(dr) = 2 THEN DateRangeFilter(data, dr) ELSE data

Label(c, v) == IF c = "year" THEN str(v) ELSE v

\* ['All'] + get_unique_values(data, c), as strings for the year
Options(data, c) == {AllOf(c)} \cup {Label(c, v) : v \in get_unique_values(data, c)}

\* st.multiselect(label, options, default="All")
multiselect(o, s, c, options) == IF o[c] = options THEN s[c] ELSE {AllOf(c)}

\* The value stored for a selection: the selection, as integers for the year.
Stored(c, sel) == IF c = "year" THEN {int(y) : y \in sel \ {AllOf(c)}} ELSE sel

\* Mutant: 'All' beside specific values is dropped instead of clearing the key.
UpdateFilterIgnoringAll(F, c, sel) ==
    IF sel \ {AllOf(c)} # {} THEN MapSet(F, c, Stored(c, sel \ {AllOf(c)})) ELSE MapDel(F, c)

\* One filter block: set the key for a specific selection, else delete it.
UpdateFilter(F, c, sel) ==
    IF AllOf(c) \notin sel /\ sel # {} THEN MapSet(F, c, Stored(c, sel)) ELSE MapDel(F, c)

\* The four filter blocks in order; a block runs only when its column exists.
RECURSIVE SidebarFilters(_, _, _, _)
SidebarFilters(F, cols, sel, i) ==
    IF i > Len(FilterCols) THEN F
    ELSE SidebarFilters(
            IF FilterCols[i] \in cols THEN UpdateFilter(F, FilterCols[i], sel[FilterCols[i]]) ELSE F,
            cols, sel, i + 1)

\* The Reset Filters button's handler.
ResetFilters(F) == EmptyMap

\* Mutant: the session's filters are not handed to filter_data.
FilteredByNothing(data, F) == filter_data(data, EmptyMap)

\* Mutant: the surviving rows come back newest first.
FilteredNewestFirst(data, F) ==
    [data EXCEPT !.rows =
        [i \in 1..Len(filter_data(data, F).rows) |->
            filter_data(data, F).rows[Len(filter_data(data, F).rows) + 1 - i]]]

\* filtered_data = filter_data(data, st.session_state.filters) of the main area
Filtered(data, F) == filter_data(data, F)

\* Mutant: the indicators are computed from the table before the filters.
IndicatorsOfData(data, filtered) == calculate_market_indicators(data)

\* indicators = calculate_market_indicators(filtered_data)
Indicators(data, filtered) == calculate_market_indicators(filtered)

NoIndicators == [total_sales |-> 0, price_trend |-> Zero, sales_growth |-> Zero]

NoWidgets == [c \in FilterColSet |-> {}]

\* One script run of main() on the file found on disk: `button` is st.button's
\* return value; o, s, d are the widget values the session holds at its start.
RunMain(file, button, o, s, d) ==
    \E loaded \in {load_data(file)} :
    \E dr \in {IF "date" \in loaded.cols THEN date_input(d, DateDefault(loaded)) ELSE <<>>} :
    \E data \in {DateFiltered(loaded, dr)} :
    \E opts \in {[c \in FilterColSet |-> IF c \in data.cols THEN Options(data, c) ELSE {}]} :
    \E sel \in {[c \in FilterColSet |->
                    IF c \in data.cols THEN multiselect(o, s, c, opts[c]) ELSE {}]} :
    \E sidebar \in {SidebarFilters(filters, data.cols, sel, 1)} :
    \E shown \in {Filtered(data, sidebar)} :
    LET widgets == (IF "date" \in loaded.cols THEN {"date_input"} ELSE {})
                       \cup (IF data.cols \cap FilterColSet # {} THEN {"multiselect"} ELSE {})
    IN  IF DataMissing(loaded)
        THEN /\ filters' = filters
             /\ wOpts' = NoWidgets
             /\ wSel' = NoWidgets
             /\ wDate' = NoDateWidget
             /\ pc' = "idle"
             /\ view' = [outcome |-> "guidance", absent |-> TRUE, called |-> {},
                         loaded |-> loaded, range |-> <<>>, input |-> loaded,
                         sel |-> NoWidgets, sidebar |-> filters, subset |-> loaded,
                         indicators |-> NoIndicators]
        ELSE /\ wOpts' = opts
             /\ wSel' = sel
             /\ wDate' = [id |-> DateDefault(loaded), val |-> dr]
             /\ IF button
                THEN /\ filters' = ResetFilters(sidebar)
                     /\ pc' = "pending"
                     /\ view' = [outcome |-> "rerun", absent |-> loaded.absent,
                                 called |-> widgets \cup {"filter_data", "button"},
                                 loaded |-> loaded, range |-> dr, input |-> data,
                                 sel |-> sel, sidebar |-> sidebar,
                                 subset |-> filter_data(data, sidebar),
                                 indicators |-> NoIndicators]
                ELSE /\ filters' = sidebar
                     /\ pc' = "idle"
                     /\ view' = [outcome |-> "rendered", absent |-> loaded.absent,
                                 called |-> widgets \cup {"filter_data", "button",
                                                          "calculate_market_indicators"},
                                 loaded |-> loaded, range |-> dr, input |-> data,
                                 sel |-> sel, sidebar |-> sidebar,
                                 subset |-> shown,
                                 indicators |-> Indicators(data, shown)]

\* --------------------------------------------------------- the data files

Missing == [exists |-> FALSE, cols |-> {}, rows |-> <<>>]

File(rows) == [exists |-> TRUE, cols |-> DOMAIN rows[1], rows |-> rows]

\* Dated sales of two brands and two model years over two days; brand A sells
\* nothing on the first day and brand B has no 2022 model.
SalesTable ==
    File(<<[date |-> Ts(1, 0), brand |-> "A", year |-> 2022, sales_count |-> 0, price |-> 10],
           [date |-> Ts(1, 1), brand |-> "B", year |-> 2023, sales_count |-> 10, price |-> 20],
           [date |-> Ts(2, 0), brand |-> "A", year |-> 2023, sales_count |-> 5, price |-> 40],
           [date |-> Ts(2, 1), brand |-> "B", year |-> 2023, sales_count |-> 30, price |-> 20]>>)

\* Three days, two regions; no brand, year, vehicle_type or sales_count column.
RegionTable ==
    File(<<[date |-> Ts(1, 1), region |-> "N", price |-> 20],
           [date |-> Ts(2, 0), region |-> "S", price |-> 30],
           [date |-> Ts(3, 1), region |-> "N", price |-> 50]>>)

\* No date column: the two-row example of the specification.
BrandTable ==
    File(<<[brand |-> "A", sales_count |-> 10],
           [brand |-> "B", sales_count |-> 30]>>)

\* The four filter columns and nothing else.
CatalogTable ==
    File(<<[brand |-> "A", year |-> 2022, region |-> "N", vehicle_type |-> "SUV"],
           [brand |-> "A", year |-> 2022, region |-> "S", vehicle_type |-> "SUV"]>>)

Files == {Missing, SalesTable, RegionTable, BrandTable, CatalogTable}

\* ---------------------------------------------------------------- actions

NoView ==
    [outcome |-> "none", absent |-> FALSE, called |-> {}, loaded |-> None, range |-> <<>>,
     input |-> None, sel |-> NoWidgets, sidebar |-> EmptyMap, subset |-> None,
     indicators |-> NoIndicators]

NoPure == [op |-> "none"]

Init ==
    /\ disk \in Files
    /\ filters = SessionInit
    /\ wOpts = NoWidgets
    /\ wSel = NoWidgets
    /\ wDate = NoDateWidget
    /\ pc = "pending"
    /\ view = NoView
    /\ pure = NoPure

\* The queued script run: the session's first, or the one st.rerun() asked for.
ScriptRun ==
    /\ pc = "pending"
    /\ RunMain(disk, FALSE, wOpts, wSel, wDate)
    /\ UNCHANGED <<disk, pure>>

\* The user changes one multiselect; Streamlit runs the script.
ChangeMultiselect ==
    /\ pc = "idle"
    /\ \E c \in FilterColSet :
         /\ wOpts[c] # {}
         /\ \E S \in SUBSET wOpts[c] :
              /\ S # wSel[c]
              /\ RunMain(disk, FALSE, wOpts, [wSel EXCEPT ![c] = S], wDate)
    /\ UNCHANGED <<disk, pure>>

\* The user changes the date_input; Streamlit runs the script.
ChangeDate ==
    /\ pc = "idle"
    /\ wDate.id # <<>>
    /\ \E v \in DateValues(wDate.id) :
         /\ v # wDate.val
         /\ RunMain(disk, FALSE, wOpts, wSel, [wDate EXCEPT !.val = v])
    /\ UNCHANGED <<disk, pure>>

\* The user clicks Reset Filters: the run in which st.button returns True.
ClickReset ==
    /\ pc = "idle"
    /\ view.outcome = "rendered"
    /\ RunMain(disk, TRUE, wOpts, wSel, wDate)
    /\ UNCHANGED <<disk, pure>>

\* The user reruns the script without touching a widget; the data file may
\* have been replaced or removed since the last run.
Rerun ==
    /\ pc = "idle"
    /\ \E f \in Files :
         /\ disk' = f
         /\ RunMain(f, FALSE, wOpts, wSel, wDate)
    /\ UNCHANGED pure

Next ==
    \/ ScriptRun
    \/ ChangeMultiselect
    \/ ChangeDate
    \/ ClickReset
    \/ Rerun

Spec == Init /\ [][Next]_vars

\* ------------------------------------------- the pipeline as a function

\* The tables drawn as inputs: every sequence of at most MaxRows rows over a
\* schema with a date, and over one without.
PureSchemas ==
    {[date : {Ts(1, 1), Ts(2, 0)}, brand : {"A", "B"}],
     [brand : {"A", "B"}, year : {2022, 2023}]}

PureTables ==
    UNION {{[cols |-> DOMAIN (CHOOSE r \in RS : TRUE), rows |-> rows, absent |-> FALSE] :
               rows \in UNION {[1..k -> RS] : k \in 0..MaxRows}} : RS \in PureSchemas}

\* The values a FilterState may hold for a key; no drawn table has a region.
PureKeyValues ==
    [date   |-> {<<1, 1>>, <<1, 2>>},
     brand  |-> {{"A"}, {"B"}, {"A", "B"}},
     year   |-> {{2022}, {2022, 2023}},
     region |-> {{"N"}}]

RECURSIVE MapsOver(_)
MapsOver(K) ==
    IF K = {} THEN {EmptyMap}
    ELSE LET k == CHOOSE x \in K : TRUE
         IN  {MapSet(f, k, v) : f \in MapsOver(K \ {k}), v \in PureKeyValues[k]}

\* What the date_input can return for a table: nothing without a date column.
PureRanges(D) ==
    IF "date" \in D.cols THEN {<<1>>, <<1, 1>>, <<1, 2>>, <<2, 2>>} ELSE {<<>>}

InitPure ==
    /\ disk = Missing
    /\ filters = SessionInit
    /\ wOpts = NoWidgets
    /\ wSel = NoWidgets
    /\ wDate = NoDateWidget
    /\ pc = "pending"
    /\ view = NoView
    /\ pure \in {[op |-> "input", D |-> D] : D \in PureTables}

\* filter_data with the empty FilterState.
PureEmpty ==
    /\ pure.op = "input"
    /\ pure' = [op |-> "empty", D |-> pure.D, out |-> filter_data(pure.D, EmptyMap)]
    /\ UNCHANGED <<disk, filters, wOpts, wSel, wDate, pc, view>>

\* filter_data twice with FilterStates on disjoint columns, and once with their union.
PureCompose ==
    /\ pure.op = "input"
    /\ \E K1 \in SUBSET DOMAIN PureKeyValues :
       \E K2 \in SUBSET (DOMAIN PureKeyValues \ K1) :
       \E F1 \in MapsOver(K1) :
       \E F2 \in MapsOver(K2) :
         pure' = [op |-> "compose", D |-> pure.D, F1 |-> F1, F2 |-> F2,
                  twice |-> filter_data(filter_data(pure.D, F1), F2),
                  once |-> filter_data(pure.D, [c \in K1 \cup K2 |->
                                                    IF c \in K1 THEN F1[c] ELSE F2[c]])]
    /\ UNCHANGED <<disk, filters, wOpts, wSel, wDate, pc, view>>

\* What main() does to a table: the date range first, the session's filters next.
PureDashboard ==
    /\ pure.op = "input"
    /\ \E dr \in PureRanges(pure.D) :
       \E K \in SUBSET (DOMAIN PureKeyValues \cap FilterColSet) :
       \E F \in MapsOver(K) :
         pure' = [op |-> "dashboard", D |-> pure.D, dr |-> dr, F |-> F,
                  input |-> DateFiltered(pure.D, dr),
                  shown |-> Filtered(DateFiltered(pure.D, dr), F)]
    /\ UNCHANGED <<disk, filters, wOpts, wSel, wDate, pc, view>>

NextPure ==
    \/ PureEmpty
    \/ PureCompose
    \/ PureDashboard

SpecPure == InitPure /\ [][NextPure]_vars

\* ----------------------------------------------------------------- claims

RowsOf(data) == {data.rows[i] : i \in DOMAIN data.rows}

InRange(r, dr) == dr[1] <= DateOf(r["date"]) /\ DateOf(r["date"]) <= dr[2]

Ran == view.outcome \in {"rendered", "rerun"}

\* C1: after Reset Filters the mapping is empty, and it is still empty when the
\* run started by the rerun filters the dataset, whatever was selected before.
C1_ResetStaysEmpty ==
    [][(pc = "pending" /\ view.outcome = "rerun")
          => (filters = EmptyMap /\ view'.sidebar = EmptyMap)]_vars

\* C2: a run whose load_data() returns None shows the guidance and returns:
\* no widget is evaluated, filters is unchanged, filter_data and
\* calculate_market_indicators are not called.
C2_MissingFileGuidance ==
    [][view'.absent
          => (view'.outcome = "guidance" /\ view'.called = {} /\ filters' = filters)]_vars

C2_Witness == view.outcome = "guidance" /\ filters # EmptyMap

\* C3: with a range [start, end] selected, a row survives the date filter iff
\* start <= its date <= end; rows are kept in their order.
C3_DateRangeClosed ==
    (Ran /\ Len(view.range) = 2)
        => view.input.rows = SelectSeq(view.loaded.rows, LAMBDA r : InRange(r, view.range))

\* A row later in the day on the end date is kept and another row is dropped.
C3_Witness ==
    /\ Ran /\ Len(view.range) = 2
    /\ \E r \in RowsOf(view.input) :
         DateOf(r["date"]) = view.range[2] /\ r["date"] > Ts(view.range[2], 0)
    /\ \E r \in RowsOf(view.loaded) :
         r \notin RowsOf(view.input) /\ DateOf(r["date"]) = view.range[2] + 1

\* A row satisfies the date range, when one is selected, and every key in `keys`.
Satisfies(r, F, keys, dr) ==
    /\ Len(dr) = 2 => InRange(r, dr)
    /\ \A c \in keys : c \in DOMAIN r /\ r[c] \in F[c]

\* C4 as stated: the subset handed to the indicators is exactly the loaded rows
\* that satisfy the date range and, for every key of the FilterState, have
\* their value in the key's allowed set.
C4_EveryKeyConstrains ==
    view.outcome = "rendered"
        => view.subset.rows
             = SelectSeq(view.loaded.rows,
                         LAMBDA r : Satisfies(r, view.sidebar, DOMAIN view.sidebar, view.range))

\* C4 amended: the same with the keys that are columns of the loaded dataset.
C4_PresentKeysConstrain ==
    view.outcome = "rendered"
        => view.subset.rows
             = SelectSeq(view.loaded.rows,
                         LAMBDA r : Satisfies(r, view.sidebar,
                                              DOMAIN view.sidebar \cap view.loaded.cols,
                                              view.range))

\* Two keys and a date range are active at once and drop rows; some survive.
C4_Witness ==
    /\ view.outcome = "rendered"
    /\ Len(view.range) = 2
    /\ Cardinality(DOMAIN view.sidebar \cap view.loaded.cols) >= 2
    /\ view.subset.rows # <<>>
    /\ Len(view.subset.rows) < Len(view.input.rows)
    /\ Len(view.input.rows) < Len(view.loaded.rows)

\* C7: total_sales is the sum of sales_count over the subset handed to
\* calculate_market_indicators when the column exists, else its row count.
C7_TotalSales ==
    view.outcome = "rendered"
        => /\ view.indicators.total_sales
                = IF "sales_count" \in view.subset.cols
                  THEN SumCol(view.subset.rows, "sales_count")
                  ELSE Len(view.subset.rows)
           /\ (view.loaded.rows = BrandTable.rows /\ view.sidebar = EmptyMap)
                => view.indicators.total_sales = 40
           /\ (view.loaded.rows = BrandTable.rows /\ view.sidebar = [c \in {"brand"} |-> {"A"}])
                => view.indicators.total_sales = 10

\* The specification's example: brand A alone gives one row and total_sales 10.
C7_Witness ==
    /\ view.outcome = "rendered"
    /\ view.loaded.rows = BrandTable.rows
    /\ view.sidebar = [c \in {"brand"} |-> {"A"}]
    /\ Len(view.subset.rows) = 1
    /\ view.indicators.total_sales = 10

Guarded(data, c) ==
    \/ data.rows = <<>>
    \/ Cardinality(DistinctDates(data)) < 2
    \/ (c \in data.cols /\ SumCol(EarlierHalf(data.rows), c) = 0)

\* C8: the indicators never raise, and price_trend and sales_growth are 0 when
\* the subset is empty, has fewer than 2 distinct dates, or its earlier half sums to 0.
C8_GuardedTrends ==
    view.outcome = "rendered"
        => /\ ~view.indicators.price_trend.raised
           /\ ~view.indicators.sales_growth.raised
           /\ Guarded(view.subset, "price") => view.indicators.price_trend = Zero
           /\ Guarded(view.subset, "sales_count") => view.indicators.sales_growth = Zero

\* The active filters exclude every row of a table whose own trend is not 0.
C8_Witness ==
    /\ view.outcome = "rendered"
    /\ view.subset.rows = <<>>
    /\ view.sidebar # EmptyMap
    /\ calculate_market_indicators(view.input).sales_growth # Zero
    /\ view.indicators.sales_growth = Zero

\* The same with two distinct dates and an earlier half that sold nothing.
C8_ZeroDivisorReached ==
    /\ view.outcome = "rendered"
    /\ Cardinality(DistinctDates(view.subset)) >= 2
    /\ SumCol(EarlierHalf(view.subset.rows), "sales_count") = 0
    /\ SumCol(LaterHalf(view.subset.rows), "sales_count") > 0

StaleKeys == DOMAIN view.sidebar \ view.loaded.cols

\* C9: when the FilterState holds a key for a column the dataset lacks, the
\* filtering returns the rows that filtering without that key returns.
C9_AbsentColumnNoOp ==
    (view.outcome = "rendered" /\ StaleKeys # {})
        => view.subset.rows
             = SelectSeq(view.input.rows,
                         LAMBDA r : \A c \in DOMAIN view.sidebar \ StaleKeys : r[c] \in view.sidebar[c])

\* A key of an earlier table is kept while a key of the current one drops rows.
C9_Witness ==
    /\ view.outcome = "rendered"
    /\ StaleKeys # {}
    /\ DOMAIN view.sidebar \ StaleKeys # {}
    /\ view.subset.rows # <<>>
    /\ Len(view.subset.rows) < Len(view.input.rows)

\* C10: after the sidebar, a present column is a key iff its selection is
\* non-empty and without 'All', the stored value is then the selection (the
\* year's as integers), and no key but the four columns is ever added.
C10_FilterStateUpdate ==
    /\ DOMAIN filters \subseteq FilterColSet
    /\ Ran =>
         /\ DOMAIN view.sidebar \subseteq FilterColSet
         /\ \A c \in FilterColSet \cap view.loaded.cols :
              /\ c \in DOMAIN view.sidebar
                    <=> (view.sel[c] # {} /\ AllOf(c) \notin view.sel[c])
              /\ c \in DOMAIN view.sidebar
                    => IF c = "year"
                       THEN /\ view.sidebar[c] \subseteq Int
                            /\ {str(y) : y \in view.sidebar[c]} = view.sel[c]
                       ELSE view.sidebar[c] = view.sel[c]

\* A year is stored as integers, and 'All' beside a brand leaves no brand key.
C10_Witness ==
    /\ Ran
    /\ "year" \in DOMAIN view.sidebar
    /\ view.sidebar["year"] = {2022, 2023}
    /\ "brand" \in view.loaded.cols
    /\ view.sel["brand"] = {"All", "A"}
    /\ "brand" \notin DOMAIN view.sidebar

\* C5: filter_data(D, {}) is D row for row, and with an empty FilterState the
\* subset the dashboard shows is the date-filtered table.
C5_EmptyFilterIdentity ==
    /\ pure.op = "empty" => pure.out = pure.D
    /\ (pure.op = "dashboard" /\ pure.F = EmptyMap) => pure.shown = pure.input

\* The dashboard shows rows that differ, in some order, with no filter set.
C5_Witness ==
    /\ pure.op = "dashboard"
    /\ pure.F = EmptyMap
    /\ Len(pure.shown.rows) = MaxRows
    /\ pure.shown.rows[1] # pure.shown.rows[Len(pure.shown.rows)]

\* C6: filtering by F1 and then by F2, on disjoint columns, is filtering once by
\* their union; the dashboard's date range followed by filter_data is
\* filtering once with the range as the date key.
C6_FiltersCompose ==
    /\ pure.op = "compose" => pure.twice = pure.once
    /\ (pure.op = "dashboard" /\ Len(pure.dr) = 2)
          => pure.shown = filter_data(pure.D, MapSet(pure.F, "date", pure.dr))

\* The date range drops a row, a discrete filter drops another, one survives.
C6_Witness ==
    /\ pure.op = "dashboard"
    /\ Len(pure.dr) = 2
    /\ pure.F # EmptyMap
    /\ pure.shown.rows # <<>>
    /\ Len(pure.shown.rows) < Len(pure.input.rows)
    /\ Len(pure.input.rows) < Len(pure.D.rows)

====
